---- MODULE Spec2Model ----
(***************************************************************************)
(* A model of the semantic knowledge base backend (backend/app):           *)
(*   - the LanceDB index store (database.py, LanceDBManager),              *)
(*   - the reranker's ordering (services.py, ModelManager.rerank),         *)
(*   - the detached batch ingestion task (main.py, _process_batch_async),  *)
(*   - the llms.txt crawler (services.py, LLMSTxtScraper).                 *)
(* Each part has its own specification over the shared variables:         *)
(*   Spec        the index store under arbitrary request sequences         *)
(*   SpecRerank  rerank applied to arbitrary scores and top_k              *)
(*   SpecBatch   one batch submission and its background task             *)
(*   SpecCrawl   one crawl, with its concurrent resource fetches           *)
(***************************************************************************)
EXTENDS Integers, Sequences, FiniteSets, TLC

\* ------------------------------------------------------------------------
\* Bounds of the model
\* ------------------------------------------------------------------------
MaxIds == 2          \* chunks ever created in one behaviour (uuid4 draws)
MaxBatch == 2        \* longest list handed to add_chunks
MaxCands == 4        \* most candidates handed to rerank
MaxScore == 2        \* reranker scores are drawn from 0..MaxScore
MaxTopK == 3         \* top_k is drawn from 1..MaxTopK
MaxPaths == 3        \* paths under the batch directory
MaxLines == 3        \* lines of the llms.txt manifest
max_concurrent == 2  \* LLMSTxtScraper(max_concurrent=...), 10 by default
MaxText == 3         \* characters of a text handed to chunk_document
MaxSegs == 2         \* segments the chunker returns for one text

vector_search_limit == 20         \* settings.vector_search_limit (config.py)
top_k_ge == 1                     \* QueryRequest.top_k: ge=1 (models.py)
top_k_le == 100                   \* QueryRequest.top_k: le=100 (models.py)
index_name_max_length == 100      \* index_name: max_length=100 (models.py)

Names == {"a", "b"}               \* index names requests use
Contents == {"x", "y"}            \* chunk texts
NoName == "-"

VARIABLES
    \* ---- LanceDBManager and the database behind it (database.py)
    _db,            \* self._db is not None
    _tables,        \* keys of self._tables, the handle cache
    table_names,    \* db.table_names(): the tables of the database
    rows,           \* rows[n]: the records of table n, in insertion order
    nextId,         \* number of uuid4 values drawn so far
    dropped,        \* ids of chunks whose table was dropped
    last,           \* the last request: operation, input, outcome, state before
    \* ---- ModelManager.rerank (services.py)
    scores,         \* reranker_model.predict(pairs), one score per candidate
    top_k,          \* the top_k argument
    reranked,       \* the returned list of <<index, score>> pairs
    rerank_pc,      \* "idle", "called" or "returned"
    \* ---- the file system and the batch ingestion (main.py, services.py)
    dir_state,      \* directory_path: "dir", "file" or "absent"
    entry,          \* entry[p]: what path p under the directory is
    file_patterns,  \* the request's file_patterns (<<>> for None)
    batch_pc,       \* "idle", "rejected", "returned", "queued", "running", "done"
    response,       \* the response or error of the encode_batch request
    documents,      \* the task's discovered documents
    doc_idx,        \* position of the task's for loop in documents
    processed,      \* the task's processed counter
    failed,         \* the task's failed counter
    attempts,       \* log: the documents the loop body ran for, with outcome
    \* ---- LLMSTxtScraper and one crawl (services.py)
    manifest,       \* the lines of the llms.txt document the server returns
    wanted,         \* the sections argument: [given, names]
    crawl_pc,       \* where process_llms_txt is
    crawl_error,    \* the exception process_llms_txt raised, or "none"
    stages,         \* the stages of the crawl entered so far, in order
    parsed,         \* the parsed manifest: a list of [name, links]
    sections_found, \* list(parsed.keys()) before filtering
    task,           \* task[u]: the state of fetch_markdown_safe(u)
    sem,            \* the value of the semaphore
    requested,      \* requested[u]: number of GET requests sent for u
    content_map,    \* the urls of fetch_all_markdown's result
    pending,        \* urls of content_map the ingest loop has not reached
    documents_processed,
    ingest_raised,  \* log: the urls whose pass of the ingest loop raised
    \* ---- the HTTP endpoints (main.py)
    api,            \* the last endpoint request: input, collaborator calls, response
    \* ---- DocumentProcessor.chunk_document (services.py)
    content,        \* the text handed to chunk_document
    segments,       \* what self.chunker(content) returns
    chunk_result,   \* the returned [status, chunks, offsets]
    chunk_pc        \* "idle", "called" or "returned"

storeVars == <<_db, _tables, table_names, rows, nextId, dropped, last>>
rerankVars == <<scores, top_k, reranked, rerank_pc>>
batchVars == <<dir_state, entry, file_patterns, batch_pc, response, documents, doc_idx,
               processed, failed, attempts>>
crawlVars == <<manifest, wanted, crawl_pc, crawl_error, stages, parsed, sections_found,
               task, sem, requested, content_map, pending, documents_processed,
               ingest_raised>>
apiVars == <<api>>
chunkVars == <<content, segments, chunk_result, chunk_pc>>
vars == <<storeVars, rerankVars, batchVars, crawlVars, apiVars, chunkVars>>

\* ------------------------------------------------------------------------
\* Helpers
\* ------------------------------------------------------------------------
Min(a, b) == IF a <= b THEN a ELSE b

Range(s) == {s[i] : i \in 1..Len(s)}

SeqsUpTo(S, n) == UNION {[1..k -> S] : k \in 0..n}

\* The state of the store a request starts from.
Snapshot == [names |-> table_names, rows |-> rows, cache |-> _tables, db |-> _db]

NoRequest ==
    [op |-> "none", name |-> NoName, status |-> "ok", ret |-> 0, arg |-> 0,
     pre |-> [names |-> {}, rows |-> [n \in Names |-> <<>>], cache |-> {}, db |-> FALSE]]

Request(op, name, status, ret, arg) ==
    [op |-> op, name |-> name, status |-> status, ret |-> ret, arg |-> arg, pre |-> Snapshot]

\* ------------------------------------------------------------------------
\* LanceDBManager (database.py)
\* ------------------------------------------------------------------------

\* _get_table: the cached handle if there is one, else a handle opened from the
\* database and cached; IndexNotFoundError when the database has no such table.
\* The result is <<status, connected, cache>>.
GetTableCacheOnMiss(name) ==
    IF name \in _tables THEN <<"ok", _db, _tables>>
    ELSE IF name \notin table_names THEN <<"IndexNotFoundError", TRUE, _tables \cup {name}>>
    ELSE <<"ok", TRUE, _tables \cup {name}>>

GetTableNoCheck(name) ==
    IF name \in _tables THEN <<"ok", _db, _tables>>
    ELSE <<"ok", TRUE, _tables \cup {name}>>

_get_table(name) ==
    IF name \in _tables THEN <<"ok", _db, _tables>>
    ELSE IF name \notin table_names THEN <<"IndexNotFoundError", TRUE, _tables>>
    ELSE <<"ok", TRUE, _tables \cup {name}>>

\* The list comprehension of add_chunks: one ChunkSchema per content, each with
\* its own uuid4 (the k-th value drawn is modelled as the number k).
NewChunksContentId(contents, source, base) ==
    [i \in 1..Len(contents) |->
        [chunk_id |-> IF contents[i] = "x" THEN 1 ELSE 2,
         content |-> contents[i], source_document |-> source]]

NewChunks(contents, source, base) ==
    [i \in 1..Len(contents) |->
        [chunk_id |-> base + i, content |-> contents[i], source_document |-> source]]

\* table.add(records): the records are appended to the table.
TableAddDedup(old, chunks) ==
    old \o SelectSeq(chunks, LAMBDA c : \A j \in 1..Len(old) : old[j].content # c.content)

TableAdd(old, chunks) == old \o chunks

\* The lengths of embeddings, chunk_offsets and token_counts a caller may pass
\* beside n contents: all equal to n, or one of the three lists one element
\* shorter or longer.
LensFor(n) ==
    {[i \in 1..3 |-> n]} \cup
    {[i \in 1..3 |-> IF i = j THEN m ELSE n] : j \in 1..3, m \in {n - 1, n + 1} \cap Nat}

\* Whether the caller's four lists are equally long.
SameLengths(n, lens) == lens = [i \in 1..3 |-> n]

\* A zip without strict=True never raises.
ZipNotStrict(nContents, lens) == TRUE

\* zip(..., strict=True) over the four lists raises ValueError unless all four
\* have the same length.
StrictZipOk(nContents, lens) == \A i \in 1..3 : lens[i] = nContents

\* create_index
CreateIndexNoCheck(name) ==
    /\ _db' = TRUE
    /\ table_names' = table_names \cup {name}
    /\ rows' = [rows EXCEPT ![name] = <<>>]
    /\ _tables' = _tables \cup {name}
    /\ last' = Request("create_index", name, "ok", 1, 0)
    /\ UNCHANGED <<nextId, dropped>>

CreateIndex(name) ==
    /\ _db' = TRUE
    /\ IF name \in table_names
       THEN /\ last' = Request("create_index", name, "IndexAlreadyExistsError", 0, 0)
            /\ UNCHANGED <<_tables, table_names, rows, nextId, dropped>>
       ELSE /\ table_names' = table_names \cup {name}
            /\ rows' = [rows EXCEPT ![name] = <<>>]
            /\ _tables' = _tables \cup {name}
            /\ last' = Request("create_index", name, "ok", 1, 0)
            /\ UNCHANGED <<nextId, dropped>>

\* index_exists
IndexExists(name) ==
    /\ _db' = TRUE
    /\ last' = Request("index_exists", name, "ok", IF name \in table_names THEN 1 ELSE 0, 0)
    /\ UNCHANGED <<_tables, table_names, rows, nextId, dropped>>

\* list_indexes
ListIndexes ==
    /\ _db' = TRUE
    /\ last' = Request("list_indexes", NoName, "ok", table_names, 0)
    /\ UNCHANGED <<_tables, table_names, rows, nextId, dropped>>

\* add_chunks.  lens are the lengths of embeddings, chunk_offsets, token_counts.
\* The outcome of the call in the current state: its status, return value, and
\* the manager and database state it leaves.
add_chunks(name, contents, lens, source) ==
    LET t == _get_table(name) IN
    IF t[1] # "ok"
    THEN [status |-> t[1], ret |-> 0, db |-> t[2], cache |-> t[3],
          rows |-> rows, nextId |-> nextId]
    ELSE IF ~StrictZipOk(Len(contents), lens)
    THEN [status |-> "ValueError", ret |-> 0, db |-> t[2], cache |-> t[3],
          rows |-> rows, nextId |-> nextId]
    ELSE [status |-> "ok", ret |-> Len(contents), db |-> t[2], cache |-> t[3],
          rows |-> [rows EXCEPT ![name] = TableAdd(@, NewChunks(contents, source, nextId))],
          nextId |-> nextId + Len(contents)]

\* A request that calls add_chunks.  No caller passes four empty lists
\* (main.py 279, 391, 455; services.py 632).
AddChunks(name, contents, lens) ==
    LET r == add_chunks(name, contents, lens, "doc") IN
    /\ Len(contents) + lens[1] + lens[2] + lens[3] > 0
    /\ r.nextId <= MaxIds
    /\ _db' = r.db
    /\ _tables' = r.cache
    /\ rows' = r.rows
    /\ nextId' = r.nextId
    /\ last' = Request("add_chunks", name, r.status, r.ret,
                       <<contents, SameLengths(Len(contents), lens)>>)
    /\ UNCHANGED <<table_names, dropped>>

\* vector_search: at most limit records of the table.
VectorSearch(name, limit) ==
    LET t == _get_table(name) IN
    /\ _db' = t[2]
    /\ _tables' = t[3]
    /\ last' = Request("vector_search", name, t[1],
                       IF t[1] = "ok" THEN SubSeq(rows[name], 1, Min(limit, Len(rows[name])))
                       ELSE <<>>, limit)
    /\ UNCHANGED <<table_names, rows, nextId, dropped>>

\* delete_index
DeleteIndexKeepCache(name) ==
    /\ _db' = TRUE
    /\ IF name \notin table_names
       THEN /\ last' = Request("delete_index", name, "IndexNotFoundError", 0, 0)
            /\ UNCHANGED <<_tables, table_names, rows, nextId, dropped>>
       ELSE /\ table_names' = table_names \ {name}
            /\ dropped' = dropped \cup {rows[name][i].chunk_id : i \in 1..Len(rows[name])}
            /\ rows' = [rows EXCEPT ![name] = <<>>]
            /\ last' = Request("delete_index", name, "ok", 1, 0)
            /\ UNCHANGED <<_tables, nextId>>

DeleteIndex(name) ==
    /\ _db' = TRUE
    /\ IF name \notin table_names
       THEN /\ last' = Request("delete_index", name, "IndexNotFoundError", 0, 0)
            /\ UNCHANGED <<_tables, table_names, rows, nextId, dropped>>
       ELSE /\ table_names' = table_names \ {name}
            /\ dropped' = dropped \cup {rows[name][i].chunk_id : i \in 1..Len(rows[name])}
            /\ rows' = [rows EXCEPT ![name] = <<>>]
            /\ _tables' = _tables \ {name}
            /\ last' = Request("delete_index", name, "ok", 1, 0)
            /\ UNCHANGED nextId

\* close
Close ==
    /\ IF _db THEN _db' = FALSE /\ _tables' = {} ELSE UNCHANGED <<_db, _tables>>
    /\ last' = Request("close", NoName, "ok", 0, 0)
    /\ UNCHANGED <<table_names, rows, nextId, dropped>>

\* get_record_count (main.py) calls db_manager.count_rows, an attribute that
\* LanceDBManager does not define: the call raises AttributeError before it
\* touches the store.
CountRows(name) ==
    /\ last' = Request("count_rows", name, "AttributeError", 0, 0)
    /\ UNCHANGED <<_db, _tables, table_names, rows, nextId, dropped>>

\* ------------------------------------------------------------------------
\* ModelManager.rerank (services.py)
\* ------------------------------------------------------------------------

\* list(enumerate(scores)): <<index, score>> pairs, indexes from 0.
Enumerate(sc) == [i \in 1..Len(sc) |-> <<i - 1, sc[i]>>]

\* One step of the stable descending sort: e goes behind every pair already
\* placed whose score is greater than or equal to its own.
InsertDescUnstable(sorted, e) ==
    LET k == Cardinality({i \in 1..Len(sorted) : sorted[i][2] > e[2]})
    IN  SubSeq(sorted, 1, k) \o <<e>> \o SubSeq(sorted, k + 1, Len(sorted))

InsertDesc(sorted, e) ==
    LET k == Cardinality({i \in 1..Len(sorted) : sorted[i][2] >= e[2]})
    IN  SubSeq(sorted, 1, k) \o <<e>> \o SubSeq(sorted, k + 1, Len(sorted))

\* indexed_scores.sort(key=lambda x: x[1], reverse=True): list.sort is stable,
\* also under reverse=True, so pairs of equal score keep their order.
RECURSIVE SortDesc(_)
SortDesc(pairs) ==
    IF pairs = <<>> THEN <<>>
    ELSE InsertDesc(SortDesc(SubSeq(pairs, 1, Len(pairs) - 1)), pairs[Len(pairs)])

\* indexed_scores[:top_k], for top_k >= 0.
SliceNoTruncate(s, k) == s

Slice(s, k) == SubSeq(s, 1, Min(k, Len(s)))

rerank(sc, k) ==
    IF sc = <<>> THEN <<>> ELSE Slice(SortDesc(Enumerate(sc)), k)

\* A call of rerank and its return.
Rerank ==
    /\ rerank_pc = "called"
    /\ reranked' = rerank(scores, top_k)
    /\ rerank_pc' = "returned"
    /\ UNCHANGED <<scores, top_k>>

\* ------------------------------------------------------------------------
\* DocumentProcessor and the batch ingestion (services.py, main.py)
\* ------------------------------------------------------------------------
Paths == 1..MaxPaths
Target == "a"                      \* the batch request's index_name

\* What a path under the directory can be: nothing, a directory, a text file
\* with content, a file that is empty or only whitespace, a file that is not
\* valid UTF-8.
EntryKinds == {"absent", "dir", "text", "empty", "corrupt"}

\* Paths are named so that odd paths end in .txt and even paths in .md; the
\* order of the numbers is the order of the Path objects.
Suffix(p) == IF p % 2 = 1 THEN "txt" ELSE "md"

\* The chunks the chunker makes of the text file at p.
ChunksOf(p) == IF p % 2 = 1 THEN <<"x">> ELSE <<"x", "y">>

default_file_patterns == <<"*.txt", "*.md", "*.rst", "*.py", "*.json">>

\* The file_patterns a request may carry; <<>> stands for None.
PatternChoices == {<<>>, <<"*.txt">>, <<"*.md", "*">>, <<"*", "*.txt">>}

Matches(pattern, p) == pattern = "*" \/ pattern = "*." \o Suffix(p)

\* path.rglob(pattern): every existing path below the directory whose name
\* matches, directories included, in the order the directory scan yields them
\* (here: descending).
RECURSIVE Descending(_)
Descending(S) ==
    IF S = {} THEN <<>>
    ELSE LET m == CHOOSE x \in S : \A y \in S : y <= x
         IN  <<m>> \o Descending(S \ {m})

rglob(pattern) == Descending({p \in Paths : entry[p] # "absent" /\ Matches(pattern, p)})

\* for pattern in patterns: documents.extend(path.rglob(pattern))
RECURSIVE ExtendAll(_)
ExtendAll(patterns) ==
    IF patterns = <<>> THEN <<>>
    ELSE rglob(Head(patterns)) \o ExtendAll(Tail(patterns))

\* sorted(S)
RECURSIVE Sorted(_)
Sorted(S) ==
    IF S = {} THEN <<>>
    ELSE LET m == CHOOSE x \in S : \A y \in S : x <= y
         IN  <<m>> \o Sorted(S \ {m})

\* sorted(set(documents))
SortedSetUnsorted(docs) == docs

SortedSet(docs) == Sorted(Range(docs))

\* discover_documents: <<status, documents>>
discover_documents(patterns) ==
    IF dir_state = "absent" THEN <<"DirectoryNotFoundError", <<>>>>
    ELSE IF dir_state # "dir" THEN <<"ValueError", <<>>>>
    ELSE LET pats == IF patterns = <<>> THEN default_file_patterns ELSE patterns
         IN  <<"ok", SortedSet(ExtendAll(pats))>>

\* read_document followed by chunk_document, as process_document runs them:
\* <<status, chunks>>
process_document(p) ==
    CASE entry[p] = "absent" -> <<"DocumentNotFoundError", <<>>>>
      [] entry[p] = "dir" -> <<"ValueError", <<>>>>
      [] entry[p] = "corrupt" -> <<"UnicodeDecodeError", <<>>>>
      [] entry[p] = "empty" -> <<"ok", <<>>>>
      [] OTHER -> <<"ok", ChunksOf(p)>>

\* encode_batch: the request.  It checks the index, enumerates the documents,
\* and starts the background task unless there is nothing to do.
EncodeBatchNoEmptyCheck ==
    /\ batch_pc = "idle"
    /\ _db' = TRUE
    /\ LET d == discover_documents(file_patterns) IN
       IF Target \notin table_names
       THEN /\ batch_pc' = "rejected"
            /\ response' = [status |-> "IndexNotFoundError", documents_queued |-> 0]
       ELSE IF d[1] # "ok"
       THEN /\ batch_pc' = "rejected"
            /\ response' = [status |-> d[1], documents_queued |-> 0]
       ELSE /\ batch_pc' = "queued"
            /\ response' = [status |-> "success", documents_queued |-> Len(d[2])]
    /\ UNCHANGED <<_tables, table_names, rows, nextId, dropped, last>>
    /\ UNCHANGED <<dir_state, entry, file_patterns, documents, doc_idx, processed, failed,
                   attempts>>

EncodeBatch ==
    /\ batch_pc = "idle"
    /\ _db' = TRUE
    /\ LET d == discover_documents(file_patterns) IN
       IF Target \notin table_names
       THEN /\ batch_pc' = "rejected"
            /\ response' = [status |-> "IndexNotFoundError", documents_queued |-> 0]
       ELSE IF d[1] # "ok"
       THEN /\ batch_pc' = "rejected"
            /\ response' = [status |-> d[1], documents_queued |-> 0]
       ELSE IF d[2] = <<>>
       THEN /\ batch_pc' = "returned"
            /\ response' = [status |-> "success", documents_queued |-> 0]
       ELSE /\ batch_pc' = "queued"
            /\ response' = [status |-> "success", documents_queued |-> Len(d[2])]
    /\ UNCHANGED <<_tables, table_names, rows, nextId, dropped, last>>
    /\ UNCHANGED <<dir_state, entry, file_patterns, documents, doc_idx, processed, failed,
                   attempts>>

\* _process_batch_async up to its for loop: the task enumerates the documents
\* again; an exception of discover_documents is caught by the outer handler.
BatchStart ==
    /\ batch_pc = "queued"
    /\ LET d == discover_documents(file_patterns) IN
       IF d[1] = "ok"
       THEN /\ documents' = d[2]
            /\ batch_pc' = "running"
       ELSE /\ documents' = <<>>
            /\ batch_pc' = "done"
    /\ doc_idx' = 1
    /\ processed' = 0
    /\ failed' = 0
    /\ UNCHANGED <<storeVars, dir_state, entry, file_patterns, response, attempts>>

\* One pass of the for loop of _process_batch_async.  fault says whether the
\* embedding model ("encode") or table.add ("add") raises for this document.
\* With the loop's try/except (caught) the failure is counted and the loop goes
\* on; an exception not caught there ends the loop in the outer handler.
LoopBody(fault, caught) ==
    /\ batch_pc = "running"
    /\ doc_idx <= Len(documents)
    /\ LET doc == documents[doc_idx]
           pd == process_document(doc)
           n == Len(pd[2])
           r == add_chunks(Target, pd[2], [i \in 1..3 |-> n], doc)
           stored == pd[1] = "ok" /\ n > 0 /\ fault # "encode"
           status == IF pd[1] # "ok" THEN pd[1]
                     ELSE IF n = 0 THEN "empty"
                     ELSE IF fault = "encode" THEN "RuntimeError"
                     ELSE IF r.status # "ok" THEN r.status
                     ELSE IF fault = "add" THEN "OSError"
                     ELSE "ok"
       IN  /\ attempts' = Append(attempts, [doc |-> doc, status |-> status])
           /\ IF stored
              THEN _db' = r.db /\ _tables' = r.cache
              ELSE UNCHANGED <<_db, _tables>>
           /\ IF status = "ok"
              THEN rows' = r.rows /\ nextId' = r.nextId /\ processed' = processed + 1
              ELSE UNCHANGED <<rows, nextId, processed>>
           /\ IF status \in {"ok", "empty"}
              THEN doc_idx' = doc_idx + 1 /\ UNCHANGED <<failed, batch_pc>>
              ELSE IF caught
              THEN doc_idx' = doc_idx + 1 /\ failed' = failed + 1 /\ UNCHANGED batch_pc
              ELSE batch_pc' = "done" /\ UNCHANGED <<failed, doc_idx>>
    /\ UNCHANGED <<table_names, dropped, last>>
    /\ UNCHANGED <<dir_state, entry, file_patterns, response, documents>>

BatchDocNoCatch(fault) == LoopBody(fault, FALSE)

\* A variant of the task that creates the target index when it is missing.
BatchDocCreating(fault) ==
    IF Target \in table_names
    THEN LoopBody(fault, TRUE)
    ELSE /\ batch_pc = "running"
         /\ doc_idx <= Len(documents)
         /\ CreateIndex(Target)
         /\ UNCHANGED batchVars

BatchDoc(fault) == LoopBody(fault, TRUE)

\* The end of the for loop: the summary is logged and the task returns.
BatchEnd ==
    /\ batch_pc = "running"
    /\ doc_idx > Len(documents)
    /\ batch_pc' = "done"
    /\ UNCHANGED <<storeVars, dir_state, entry, file_patterns, response, documents, doc_idx,
                   processed, failed, attempts>>

\* Another process removes a path while the batch is pending or running.
FsRemove(p) ==
    /\ batch_pc \in {"queued", "running"}
    /\ entry[p] # "absent"
    /\ entry' = [entry EXCEPT ![p] = "absent"]
    /\ UNCHANGED <<storeVars, dir_state, file_patterns, batch_pc, response, documents,
                   doc_idx, processed, failed, attempts>>

\* Requests served between encode_batch's return and the task's first step.
BatchInterleavedRequest ==
    /\ batch_pc = "queued"
    /\ (DeleteIndex(Target) \/ CreateIndex(Target))
    /\ UNCHANGED batchVars

BatchIdle ==
    /\ dir_state = "dir"
    /\ entry = [p \in Paths |-> "absent"]
    /\ file_patterns = <<>>
    /\ batch_pc = "idle"
    /\ response = [status |-> "none", documents_queued |-> 0]
    /\ documents = <<>>
    /\ doc_idx = 1
    /\ processed = 0
    /\ failed = 0
    /\ attempts = <<>>

\* ------------------------------------------------------------------------
\* LLMSTxtScraper (services.py)
\* ------------------------------------------------------------------------

\* A URL is a sequence of pieces on one host; ".md", ".txt" and "#" are pieces.
LinkUrls ==
    {<<"p", ".md">>, <<"q", ".md">>, <<"r", ".md">>, <<"r", ".md", "#", "s">>, <<"t", ".txt">>,
     <<"u", ".md">>}

\* The lines of a manifest, as the two regular expressions classify them:
\* a section header (SECTION_PATTERN) or a link line (LINK_PATTERN).
ManifestLines ==
    {[kind |-> "header", section |-> n, url |-> <<>>] : n \in {"S1", "S2"}} \cup
    {[kind |-> "link", section |-> "", url |-> u] : u \in LinkUrls}

\* url.endswith(".md") or ".md#" in url
IsMarkdown(u) ==
    \/ (Len(u) > 0 /\ u[Len(u)] = ".md")
    \/ \E i \in 1..(Len(u) - 1) : u[i] = ".md" /\ u[i + 1] = "#"

\* url.split("#")[0]
StripFragment(u) ==
    IF \E i \in 1..Len(u) : u[i] = "#"
    THEN SubSeq(u, 1, (CHOOSE i \in 1..Len(u) : u[i] = "#" /\ \A j \in 1..(i - 1) : u[j] # "#") - 1)
    ELSE u

FetchUrls == {StripFragment(u) : u \in {v \in LinkUrls : IsMarkdown(v)}}

\* result[section].append(link), creating the section when it is new.
AddLink(result, section, link) ==
    IF \E i \in 1..Len(result) : result[i].name = section
    THEN [i \in 1..Len(result) |->
            IF result[i].name = section
            THEN [name |-> section, links |-> Append(result[i].links, link)]
            ELSE result[i]]
    ELSE Append(result, [name |-> section, links |-> <<link>>])

\* if current_section not in result: result[current_section] = []
AddSection(result, section) ==
    IF \E i \in 1..Len(result) : result[i].name = section
    THEN result
    ELSE Append(result, [name |-> section, links |-> <<>>])

\* The for loop of parse_llms_txt over the lines, from (result, current_section).
RECURSIVE ParseLines(_, _, _)
ParseLines(lines, result, current) ==
    IF lines = <<>> THEN result
    ELSE LET line == Head(lines) IN
         IF line.kind = "header"
         THEN ParseLines(Tail(lines), AddSection(result, line.section), line.section)
         ELSE IF IsMarkdown(line.url)
         THEN ParseLines(Tail(lines), AddLink(result, current, StripFragment(line.url)), current)
         ELSE ParseLines(Tail(lines), result, current)

RECURSIVE TotalLinks(_)
TotalLinks(result) ==
    IF result = <<>> THEN 0 ELSE Len(Head(result).links) + TotalLinks(Tail(result))

\* parse_llms_txt: <<status, result>>
ParseNoCheck(lines) == <<"ok", ParseLines(lines, <<>>, "default")>>

parse_llms_txt(lines) ==
    LET result == ParseLines(lines, <<>>, "default") IN
    IF TotalLinks(result) = 0 THEN <<"LLMSTxtParseError", <<>>>> ELSE <<"ok", result>>

\* filter_sections
filter_sections(result, sections) ==
    IF ~sections.given THEN result
    ELSE SelectSeq(result, LAMBDA e : e.name \in Range(sections.names))

\* get_unique_urls, as a set (the list's order is that of a Python set)
get_unique_urls(result) ==
    UNION {Range(result[i].links) : i \in 1..Len(result)}

\* The chunks the chunker makes of the document fetched from u.
ChunksOfUrl(u) ==
    CASE u[1] = "p" -> <<"x">>
      [] u[1] = "q" -> <<"x", "y">>
      [] u[1] = "u" -> <<"y">>
      [] OTHER -> <<>>

\* What client.get / raise_for_status can end with: a 2xx response, an
\* HTTPStatusError, a RequestError (timeouts and transport errors), or an
\* exception that is neither (httpx.InvalidURL, RuntimeError, ...).
FetchOutcomes == {"ok", "HTTPStatusError", "RequestError", "other"}

\* fetch_url's try/except: the two httpx error families become
\* LLMSTxtFetchError; anything else leaves fetch_url as it is.
fetch_url_result(outcome) ==
    CASE outcome = "ok" -> "ok"
      [] outcome \in {"HTTPStatusError", "RequestError"} -> "LLMSTxtFetchError"
      [] OTHER -> "Exception"

\* Step 1 of process_llms_txt: fetch_url(llms_txt_url) enters the semaphore
\* and sends the request for the manifest.
CrawlFetchManifest ==
    /\ crawl_pc = "start"
    /\ sem > 0
    /\ sem' = sem - 1
    /\ stages' = Append(stages, "fetch_manifest")
    /\ crawl_pc' = "manifest_inflight"
    /\ UNCHANGED <<manifest, wanted, crawl_error, parsed, sections_found, task, requested,
                   content_map, pending, documents_processed,
                   ingest_raised>>

\* The request for the manifest ends and the semaphore is released.
CrawlManifestResponse(outcome) ==
    /\ crawl_pc = "manifest_inflight"
    /\ sem' = sem + 1
    /\ IF fetch_url_result(outcome) = "ok"
       THEN crawl_pc' = "parse" /\ UNCHANGED crawl_error
       ELSE crawl_pc' = "failed" /\ crawl_error' = fetch_url_result(outcome)
    /\ UNCHANGED <<manifest, wanted, stages, parsed, sections_found, task, requested,
                   content_map, pending, documents_processed,
                   ingest_raised>>

\* Step 2: parse it.
CrawlParse ==
    /\ crawl_pc = "parse"
    /\ stages' = Append(stages, "parse")
    /\ LET r == parse_llms_txt(manifest) IN
       IF r[1] = "ok"
       THEN /\ parsed' = r[2]
            /\ sections_found' = [i \in 1..Len(r[2]) |-> r[2][i].name]
            /\ crawl_pc' = "filter"
            /\ UNCHANGED crawl_error
       ELSE /\ crawl_pc' = "failed"
            /\ crawl_error' = r[1]
            /\ UNCHANGED <<parsed, sections_found>>
    /\ UNCHANGED <<manifest, wanted, task, sem, requested, content_map, pending,
                   documents_processed,
                   ingest_raised>>

\* Steps 3 and 4: filter the sections when a non-empty list is given, collect
\* the unique urls; return when there are none, else start fetch_all_markdown,
\* which makes one fetch_markdown_safe task per url.
CrawlFilter ==
    /\ crawl_pc = "filter"
    /\ stages' = Append(stages, "filter")
    /\ LET kept == IF wanted.given /\ wanted.names # <<>>
                   THEN filter_sections(parsed, wanted) ELSE parsed
           urls == get_unique_urls(kept)
       IN  /\ parsed' = kept
           /\ IF urls = {}
              THEN crawl_pc' = "done" /\ UNCHANGED task
              ELSE /\ crawl_pc' = "fetch_resources"
                   /\ task' = [u \in FetchUrls |-> IF u \in urls THEN "waiting" ELSE "none"]
    /\ UNCHANGED <<manifest, wanted, crawl_error, sections_found, sem, requested,
                   content_map, pending, documents_processed,
                   ingest_raised>>

\* fetch_url: "async with self.semaphore" admits the task and the request is sent.
FetchAcquireNoLimit(u) ==
    /\ task[u] = "waiting"
    /\ sem' = sem - 1
    /\ task' = [task EXCEPT ![u] = "inflight"]
    /\ requested' = [requested EXCEPT ![u] = @ + 1]
    /\ stages' = IF "fetch_resources" \in Range(stages) THEN stages
                 ELSE Append(stages, "fetch_resources")
    /\ UNCHANGED <<manifest, wanted, crawl_pc, crawl_error, parsed, sections_found,
                   content_map, pending, documents_processed,
                   ingest_raised>>

FetchAcquire(u) ==
    /\ task[u] = "waiting"
    /\ sem > 0
    /\ sem' = sem - 1
    /\ task' = [task EXCEPT ![u] = "inflight"]
    /\ requested' = [requested EXCEPT ![u] = @ + 1]
    /\ stages' = IF "fetch_resources" \in Range(stages) THEN stages
                 ELSE Append(stages, "fetch_resources")
    /\ UNCHANGED <<manifest, wanted, crawl_pc, crawl_error, parsed, sections_found,
                   content_map, pending, documents_processed,
                   ingest_raised>>

\* A variant that sends a failed request again.
FetchCompleteRetry(u, outcome) ==
    /\ task[u] = "inflight"
    /\ sem' = sem + 1
    /\ task' = [task EXCEPT ![u] =
                  CASE fetch_url_result(outcome) = "ok" -> "fetched"
                    [] fetch_url_result(outcome) = "LLMSTxtFetchError" /\ requested[u] < 2 -> "waiting"
                    [] fetch_url_result(outcome) = "LLMSTxtFetchError" -> "none_result"
                    [] OTHER -> "raised"]
    /\ UNCHANGED <<manifest, wanted, crawl_pc, crawl_error, stages, parsed, sections_found,
                   requested, content_map, pending, documents_processed,
                   ingest_raised>>

\* The request ends; the semaphore is released on every way out of the block.
\* fetch_markdown_safe turns LLMSTxtFetchError into (url, None) and lets any
\* other exception through.
FetchComplete(u, outcome) ==
    /\ task[u] = "inflight"
    /\ sem' = sem + 1
    /\ task' = [task EXCEPT ![u] =
                  CASE fetch_url_result(outcome) = "ok" -> "fetched"
                    [] fetch_url_result(outcome) = "LLMSTxtFetchError" -> "none_result"
                    [] OTHER -> "raised"]
    /\ UNCHANGED <<manifest, wanted, crawl_pc, crawl_error, stages, parsed, sections_found,
                   requested, content_map, pending, documents_processed,
                   ingest_raised>>

TaskDone(u) == task[u] \in {"none", "fetched", "none_result", "raised"}

\* asyncio.gather returns the results once every task has returned.
GatherReturn ==
    /\ crawl_pc = "fetch_resources"
    /\ \A u \in FetchUrls : TaskDone(u) /\ task[u] # "raised"
    /\ content_map' = {u \in FetchUrls : task[u] = "fetched"}
    /\ pending' = {u \in FetchUrls : task[u] = "fetched"}
    /\ crawl_pc' = "ingest"
    /\ UNCHANGED <<manifest, wanted, crawl_error, stages, parsed, sections_found, task, sem,
                   requested, documents_processed,
                   ingest_raised>>

\* asyncio.gather (return_exceptions=False) raises the first exception of a task
\* into fetch_all_markdown, and so out of process_llms_txt; the other tasks are
\* not cancelled and run on.
GatherRaise ==
    /\ crawl_pc = "fetch_resources"
    /\ \E u \in FetchUrls : task[u] = "raised"
    /\ crawl_pc' = "failed"
    /\ crawl_error' = "Exception"
    /\ UNCHANGED <<manifest, wanted, stages, parsed, sections_found, task, sem, requested,
                   content_map, pending, documents_processed,
                   ingest_raised>>

\* A variant of the loop body without the try/except: an exception of a pass
\* leaves the loop and process_llms_txt.
IngestDocNoCatch(u, fault) ==
    /\ crawl_pc = "ingest"
    /\ u \in pending
    /\ LET chunks == ChunksOfUrl(u)
           n == Len(chunks)
           r == add_chunks(Target, chunks, [i \in 1..3 |-> n], u)
           stored == n > 0 /\ fault # "encode"
           ok == stored /\ r.status = "ok" /\ fault # "add"
       IN  /\ IF stored
              THEN _db' = r.db /\ _tables' = r.cache
              ELSE UNCHANGED <<_db, _tables>>
           /\ IF ok
              THEN /\ rows' = r.rows /\ nextId' = r.nextId
                   /\ documents_processed' = documents_processed + 1
              ELSE UNCHANGED <<rows, nextId, documents_processed>>
           /\ IF n > 0 /\ ~ok
              THEN /\ ingest_raised' = ingest_raised \cup {u}
                   /\ crawl_pc' = "failed"
                   /\ crawl_error' = "Exception"
              ELSE UNCHANGED <<ingest_raised, crawl_pc, crawl_error>>
    /\ pending' = pending \ {u}
    /\ stages' = IF "ingest" \in Range(stages) THEN stages ELSE Append(stages, "ingest")
    /\ UNCHANGED <<table_names, dropped, last>>
    /\ UNCHANGED <<manifest, wanted, parsed, sections_found, task, sem, requested, content_map>>

\* Step 6: one pass of the ingest loop, for a url of content_map.  A document
\* without chunks is skipped; an exception of the chunker, the encoder or the
\* token counter (fault "encode") or of add_chunks (fault "add", or the
\* IndexNotFoundError of _get_table) is caught and logged, and the loop goes on.
IngestDoc(u, fault) ==
    /\ crawl_pc = "ingest"
    /\ u \in pending
    /\ LET chunks == ChunksOfUrl(u)
           n == Len(chunks)
           r == add_chunks(Target, chunks, [i \in 1..3 |-> n], u)
           stored == n > 0 /\ fault # "encode"
           ok == stored /\ r.status = "ok" /\ fault # "add"
       IN  /\ IF stored
              THEN _db' = r.db /\ _tables' = r.cache
              ELSE UNCHANGED <<_db, _tables>>
           /\ IF ok
              THEN /\ rows' = r.rows /\ nextId' = r.nextId
                   /\ documents_processed' = documents_processed + 1
              ELSE UNCHANGED <<rows, nextId, documents_processed>>
           /\ ingest_raised' = IF n > 0 /\ ~ok THEN ingest_raised \cup {u} ELSE ingest_raised
    /\ pending' = pending \ {u}
    /\ stages' = IF "ingest" \in Range(stages) THEN stages ELSE Append(stages, "ingest")
    /\ UNCHANGED <<table_names, dropped, last>>
    /\ UNCHANGED <<manifest, wanted, crawl_pc, crawl_error, parsed, sections_found, task, sem,
                   requested, content_map>>

\* The loop is over: process_llms_txt returns (documents_processed, sections_found).
CrawlReturn ==
    /\ crawl_pc = "ingest"
    /\ pending = {}
    /\ crawl_pc' = "done"
    /\ UNCHANGED <<manifest, wanted, crawl_error, stages, parsed, sections_found, task, sem,
                   requested, content_map, pending, documents_processed,
                   ingest_raised>>

CrawlIdle ==
    /\ manifest = <<>>
    /\ wanted = [given |-> FALSE, names |-> <<>>]
    /\ crawl_pc = "idle"
    /\ crawl_error = "none"
    /\ stages = <<>>
    /\ parsed = <<>>
    /\ sections_found = <<>>
    /\ task = [u \in FetchUrls |-> "none"]
    /\ sem = max_concurrent
    /\ requested = [u \in FetchUrls |-> 0]
    /\ content_map = {}
    /\ pending = {}
    /\ documents_processed = 0
    /\ ingest_raised = {}

\* ------------------------------------------------------------------------
\* The HTTP endpoints (main.py) and the request models (models.py)
\* ------------------------------------------------------------------------

\* The index names a request may carry: the two well-formed names, a name that
\* starts with a digit, and a well-formed name of 101 characters.
RequestNames == Names \cup {"1x", "long"}

NameLength(n) ==
    CASE n = "long" -> index_name_max_length + 1
      [] n = "1x" -> 2
      [] OTHER -> 1

\* re.match(INDEX_NAME_PATTERN, name): a letter, then letters, digits, _ or -.
MatchesIndexNamePattern(n) == n # "1x"

\* Field(min_length=1, max_length=100, pattern=INDEX_NAME_PATTERN)
IndexNameFieldValid(n) ==
    /\ NameLength(n) >= 1
    /\ NameLength(n) <= index_name_max_length
    /\ MatchesIndexNamePattern(n)

\* The response an exception leaving a handler turns into: the registered
\* exception handlers (the handler of ValueError also serves its subclasses),
\* FastAPI's own handler of request validation errors, and the generic 500
\* for everything else.
Respond(exc) ==
    CASE exc = "none" -> "success"
      [] exc \in {"IndexNotFoundError", "DocumentNotFoundError", "DirectoryNotFoundError"}
            -> "NotFound"
      [] exc = "IndexAlreadyExistsError" -> "AlreadyExists"
      [] exc \in {"ValueError", "UnicodeDecodeError", "RequestValidationError"}
            -> "InvalidInput"
      [] OTHER -> "InternalServerError"

ApiRecord(op, name, exc, calls, k, limit, count, results) ==
    [op |-> op, name |-> name, exc |-> exc, status |-> Respond(exc), calls |-> calls,
     top_k |-> k, limit |-> limit, count |-> count, results |-> results, doc |-> 0,
     pre |-> Snapshot]

NoApiRequest ==
    [op |-> "none", name |-> NoName, exc |-> "none", status |-> "success", calls |-> <<>>,
     top_k |-> 0, limit |-> 0, count |-> 0, results |-> <<>>, doc |-> 0,
     pre |-> [names |-> {}, rows |-> [n \in Names |-> <<>>], cache |-> {}, db |-> FALSE]]

\* A request that ends without a call of the store: last records that.
NoStoreCall ==
    /\ last' = Request("none", NoName, "ok", 0, 0)
    /\ UNCHANGED <<_db, _tables, table_names, rows, nextId, dropped>>

\* The request model refuses the request before the handler runs.
Reject(op, name) ==
    /\ api' = ApiRecord(op, name, "RequestValidationError", <<>>, 0, 0, 0, <<>>)
    /\ NoStoreCall

\* query, after vector_search returned candidates: the empty list is answered
\* at once, anything else goes through the reranker.  sc are the reranker's
\* scores.  The result is <<calls, ids of the results>>.
QueryResultsAlwaysRerank(candidates, k, sc) ==
    <<<<"encode_query", "vector_search", "rerank">>,
      LET r == rerank(sc, k) IN [i \in 1..Len(r) |-> candidates[r[i][1] + 1].chunk_id]>>

QueryResults(candidates, k, sc) ==
    IF candidates = <<>> THEN <<<<"encode_query", "vector_search">>, <<>>>>
    ELSE <<<<"encode_query", "vector_search", "rerank">>,
           LET r == rerank(sc, k) IN [i \in 1..Len(r) |-> candidates[r[i][1] + 1].chunk_id]>>

\* The scores the reranker gives the candidates of a query.
QueryScores == {0, 1}

\* POST /query
ApiQuery(n, k) ==
    IF ~(IndexNameFieldValid(n) /\ k >= top_k_ge /\ k <= top_k_le)
    THEN Reject("query", n)
    ELSE /\ VectorSearch(n, vector_search_limit)
         /\ IF last'.status # "ok"
            THEN api' = ApiRecord("query", n, last'.status, <<"encode_query", "vector_search">>,
                                  k, vector_search_limit, 0, <<>>)
            ELSE \E sc \in [1..Len(last'.ret) -> QueryScores] :
                    LET q == QueryResults(last'.ret, k, sc)
                    IN  api' = ApiRecord("query", n, "none", q[1], k, vector_search_limit,
                                         Len(q[2]), q[2])

\* An exception class for a status of the store ("ok" is no exception).
Exc(status) == IF status = "ok" THEN "none" ELSE status

\* POST /create
ApiCreate(n) ==
    IF ~IndexNameFieldValid(n) THEN Reject("create", n)
    ELSE /\ CreateIndex(n)
         /\ api' = ApiRecord("create", n, Exc(last'.status), <<"create_index">>, 0, 0, 0, <<>>)

\* GET /indexes
ApiList ==
    /\ ListIndexes
    /\ api' = ApiRecord("list", NoName, "none", <<"list_indexes">>, 0, 0,
                        Cardinality(table_names), <<>>)

\* GET /indexes/{index_name}/count: the path parameter is a plain str, and the
\* handler goes straight to db_manager.count_rows.
ApiCount(n) ==
    /\ CountRows(n)
    /\ api' = ApiRecord("count", n, last'.status, <<>>, 0, 0, 0, <<>>)

\* The store call of encode_document.
EncodeDocStoreCreating(n, chunks) ==
    IF n \in table_names THEN AddChunks(n, chunks, [i \in 1..3 |-> Len(chunks)])
    ELSE /\ table_names' = table_names \cup {n}
         /\ _db' = TRUE
         /\ last' = Request("add_chunks", n, "IndexNotFoundError", 0, <<chunks, TRUE>>)
         /\ UNCHANGED <<_tables, rows, nextId, dropped>>

EncodeDocStore(n, chunks) == AddChunks(n, chunks, [i \in 1..3 |-> Len(chunks)])

\* POST /encode_doc
ApiEncodeDoc(n, p) ==
    IF ~IndexNameFieldValid(n) THEN Reject("encode_doc", n)
    ELSE LET pd == process_document(p) IN
         IF pd[1] # "ok"
         THEN /\ api' = [ApiRecord("encode_doc", n, pd[1], <<"process_document">>,
                                   0, 0, 0, <<>>) EXCEPT !.doc = p]
              /\ NoStoreCall
         ELSE IF pd[2] = <<>>
         THEN /\ api' = [ApiRecord("encode_doc", n, "none", <<"process_document">>,
                                   0, 0, 0, <<>>) EXCEPT !.doc = p]
              /\ NoStoreCall
         ELSE /\ EncodeDocStore(n, pd[2])
              /\ api' = [ApiRecord("encode_doc", n, Exc(last'.status),
                                   <<"process_document", "add_chunks">>,
                                   0, 0, last'.ret, <<>>) EXCEPT !.doc = p]

\* What an upload carries: a file name (none, .md, .pdf) and bytes that are
\* text, blank, or not UTF-8.
UploadNames == {"", "f.md", "f.pdf"}
UploadKinds == {"text", "empty", "corrupt"}
ALLOWED_EXTENSIONS == {".md", ".txt"}
UploadExt(filename) == IF filename = "f.md" THEN ".md" ELSE ".pdf"
UploadChunks == <<"y">>

\* POST /upload_doc: the name is matched against the pattern by hand, then
\* the index is looked up, then the file is checked, decoded and processed.
ApiUpload(n, filename, kind) ==
    IF ~MatchesIndexNamePattern(n)
    THEN /\ api' = ApiRecord("upload", n, "ValueError", <<>>, 0, 0, 0, <<>>)
         /\ NoStoreCall
    ELSE IF n \notin table_names
    THEN /\ IndexExists(n)
         /\ api' = ApiRecord("upload", n, "IndexNotFoundError", <<"index_exists">>, 0, 0, 0, <<>>)
    ELSE IF filename = "" \/ UploadExt(filename) \notin ALLOWED_EXTENSIONS \/ kind = "corrupt"
    THEN /\ IndexExists(n)
         /\ api' = ApiRecord("upload", n, "ValueError", <<"index_exists">>, 0, 0, 0, <<>>)
    ELSE IF kind = "empty"
    THEN /\ IndexExists(n)
         /\ api' = ApiRecord("upload", n, "none", <<"index_exists">>, 0, 0, 0, <<>>)
    ELSE LET r == add_chunks(n, UploadChunks, [i \in 1..3 |-> Len(UploadChunks)], filename) IN
         /\ r.nextId <= MaxIds
         /\ _db' = r.db
         /\ _tables' = r.cache
         /\ rows' = r.rows
         /\ nextId' = r.nextId
         /\ last' = Request("add_chunks", n, r.status, r.ret, <<UploadChunks, TRUE>>)
         /\ UNCHANGED <<table_names, dropped>>
         /\ api' = ApiRecord("upload", n, Exc(r.status),
                             <<"index_exists", "process_document", "add_chunks">>,
                             0, 0, r.ret, <<>>)

\* POST /encode_batch: a rejected request, or encode_batch for index Target.
ApiBatch(n) ==
    IF ~IndexNameFieldValid(n)
    THEN batch_pc = "idle" /\ Reject("encode_batch", n) /\ UNCHANGED batchVars
    ELSE /\ n = Target
         /\ EncodeBatch
         /\ api' = ApiRecord("encode_batch", n,
                             IF response'.status = "success" THEN "none" ELSE response'.status,
                             IF Target \notin table_names THEN <<"index_exists">>
                             ELSE IF batch_pc' = "queued"
                             THEN <<"index_exists", "discover_documents", "create_task">>
                             ELSE <<"index_exists", "discover_documents">>,
                             0, 0, response'.documents_queued, <<>>)

ApiIdle == api = NoApiRequest

\* ------------------------------------------------------------------------
\* DocumentProcessor.chunk_document (services.py)
\* ------------------------------------------------------------------------

\* A text is a sequence of characters; " " stands for any whitespace.
Alphabet == {"a", "b", " "}

\* not text.strip()
IsBlank(text) == \A i \in 1..Len(text) : text[i] = " "

\* The segments the chunker (semchunk) can cut out of a text: pieces of the
\* text that are neither empty nor only whitespace.
Segments(text) ==
    {SubSeq(text, i, j) : i \in 1..Len(text), j \in 1..Len(text)} \ {t \in
        {SubSeq(text, i, j) : i \in 1..Len(text), j \in 1..Len(text)} : IsBlank(t)}

\* self.chunker(content): any list of such segments, repeats and any order
\* included.
ChunkerOutputs(text) == SeqsUpTo(Segments(text), MaxSegs)

\* content.find(chunk): a search that always starts at the beginning.
FindIgnoringStart(text, chunk, start) ==
    LET hits == {i \in 0..(Len(text) - Len(chunk)) :
                    SubSeq(text, i + 1, i + Len(chunk)) = chunk}
    IN  IF hits = {} THEN -1 ELSE CHOOSE i \in hits : \A j \in hits : i <= j

\* content.find(chunk, start), for a chunk that is not empty: the least index
\* (from 0) at or after start where chunk occurs, or -1.
Find(text, chunk, start) ==
    LET hits == {i \in start..(Len(text) - Len(chunk)) :
                    SubSeq(text, i + 1, i + Len(chunk)) = chunk}
    IN  IF hits = {} THEN -1 ELSE CHOOSE i \in hits : \A j \in hits : i <= j

\* One pass of the for loop of chunk_document: <<offset appended, new current_offset>>.
NextOffsetNoFallback(text, chunk, current_offset) ==
    LET idx == Find(text, chunk, current_offset)
    IN  <<idx, idx + Len(chunk)>>

NextOffset(text, chunk, current_offset) ==
    LET idx == Find(text, chunk, current_offset)
    IN  IF idx # -1 THEN <<idx, idx + Len(chunk)>>
        ELSE <<current_offset, current_offset + Len(chunk)>>

RECURSIVE OffsetsFrom(_, _, _)
OffsetsFrom(text, cs, current_offset) ==
    IF cs = <<>> THEN <<>>
    ELSE LET step == NextOffset(text, Head(cs), current_offset)
         IN  <<step[1]>> \o OffsetsFrom(text, Tail(cs), step[2])

\* chunk_document, given what the chunker returned for the text.
chunk_document(text, cs) ==
    [status |-> "ok", chunks |-> cs, offsets |-> OffsetsFrom(text, cs, 0)]

\* A call of chunk_document and its return.
ChunkDocument ==
    /\ chunk_pc = "called"
    /\ chunk_result' = chunk_document(content, segments)
    /\ chunk_pc' = "returned"
    /\ UNCHANGED <<content, segments>>

ChunkIdle ==
    /\ content = <<>>
    /\ segments = <<>>
    /\ chunk_result = [status |-> "none", chunks |-> <<>>, offsets |-> <<>>]
    /\ chunk_pc = "idle"

StoreInit ==
    /\ _db = FALSE
    /\ _tables = {}
    /\ table_names = {}
    /\ rows = [n \in Names |-> <<>>]
    /\ nextId = 0
    /\ dropped = {}
    /\ last = NoRequest

RerankIdle ==
    /\ scores = <<>>
    /\ top_k = 1
    /\ reranked = <<>>
    /\ rerank_pc = "idle"

Init == StoreInit /\ RerankIdle /\ BatchIdle /\ CrawlIdle /\ ApiIdle /\ ChunkIdle

StoreNext ==
    \/ \E n \in Names : CreateIndex(n)
    \/ \E n \in Names : IndexExists(n)
    \/ ListIndexes
    \/ \E n \in Names, c \in SeqsUpTo(Contents, MaxBatch) :
          \E l \in LensFor(Len(c)) : AddChunks(n, c, l)
    \/ \E n \in Names, k \in {1, vector_search_limit} : VectorSearch(n, k)
    \/ \E n \in Names : DeleteIndex(n)
    \/ \E n \in Names : CountRows(n)
    \/ Close

Next == StoreNext /\ UNCHANGED <<chunkVars, rerankVars, batchVars, crawlVars, apiVars>>

Spec == Init /\ [][Next]_vars

\* rerank on any scores and any top_k a caller passes (QueryRequest: top_k >= 1).
InitRerank ==
    /\ StoreInit
    /\ scores \in SeqsUpTo(0..MaxScore, MaxCands)
    /\ top_k \in 1..MaxTopK
    /\ reranked = <<>>
    /\ rerank_pc = "called"
    /\ BatchIdle
    /\ CrawlIdle
    /\ ApiIdle /\ ChunkIdle

NextRerank == Rerank /\ UNCHANGED <<chunkVars, storeVars, batchVars, crawlVars, apiVars>>

SpecRerank == InitRerank /\ [][NextRerank]_vars

\* One batch submission for index Target, on any directory content, with the
\* index present or not, and its background task.
InitBatch ==
    /\ _db = TRUE
    /\ table_names \in {{"b"}, {"a", "b"}}
    /\ _tables = table_names
    /\ rows = [n \in Names |-> <<>>]
    /\ nextId = 0
    /\ dropped = {}
    /\ last = NoRequest
    /\ RerankIdle
    /\ dir_state \in {"dir", "file", "absent"}
    /\ entry \in [Paths -> EntryKinds]
    /\ dir_state # "dir" => entry = [p \in Paths |-> "absent"]
    /\ file_patterns \in PatternChoices
    /\ batch_pc = "idle"
    /\ response = [status |-> "none", documents_queued |-> 0]
    /\ documents = <<>>
    /\ doc_idx = 1
    /\ processed = 0
    /\ failed = 0
    /\ attempts = <<>>
    /\ CrawlIdle
    /\ ApiIdle /\ ChunkIdle

NextBatch ==
    \/ (EncodeBatch /\ UNCHANGED <<chunkVars, rerankVars, crawlVars, apiVars>>)
    \/ (BatchStart /\ UNCHANGED <<chunkVars, rerankVars, crawlVars, apiVars>>)
    \/ (\E fault \in {"none", "encode", "add"} : BatchDoc(fault) /\ UNCHANGED <<chunkVars, rerankVars, crawlVars, apiVars>>)
    \/ (BatchEnd /\ UNCHANGED <<chunkVars, rerankVars, crawlVars, apiVars>>)
    \/ (\E p \in Paths : FsRemove(p) /\ UNCHANGED <<chunkVars, rerankVars, crawlVars, apiVars>>)
    \/ (BatchInterleavedRequest /\ UNCHANGED <<chunkVars, rerankVars, crawlVars, apiVars>>)

SpecBatch == InitBatch /\ [][NextBatch]_vars

\* One crawl into index Target: any manifest of up to MaxLines lines, any
\* sections argument, with the target index present or not.
WantedChoices ==
    {[given |-> FALSE, names |-> <<>>], [given |-> TRUE, names |-> <<>>],
     [given |-> TRUE, names |-> <<"S1">>], [given |-> TRUE, names |-> <<"S2", "default">>]}

InitCrawl ==
    /\ _db = TRUE
    /\ table_names \in {{"b"}, {"a", "b"}}
    /\ _tables = table_names
    /\ rows = [n \in Names |-> <<>>]
    /\ nextId = 0
    /\ dropped = {}
    /\ last = NoRequest
    /\ RerankIdle
    /\ BatchIdle
    /\ ApiIdle /\ ChunkIdle
    /\ manifest \in SeqsUpTo(ManifestLines, MaxLines)
    /\ wanted \in WantedChoices
    /\ crawl_pc = "start"
    /\ crawl_error = "none"
    /\ stages = <<>>
    /\ parsed = <<>>
    /\ sections_found = <<>>
    /\ task = [u \in FetchUrls |-> "none"]
    /\ sem = max_concurrent
    /\ requested = [u \in FetchUrls |-> 0]
    /\ content_map = {}
    /\ pending = {}
    /\ documents_processed = 0
    /\ ingest_raised = {}

NextCrawl ==
    \/ (CrawlFetchManifest /\ UNCHANGED <<chunkVars, storeVars, rerankVars, batchVars, apiVars>>)
    \/ (\E o \in FetchOutcomes :
            CrawlManifestResponse(o) /\ UNCHANGED <<chunkVars, storeVars, rerankVars, batchVars, apiVars>>)
    \/ (CrawlParse /\ UNCHANGED <<chunkVars, storeVars, rerankVars, batchVars, apiVars>>)
    \/ (CrawlFilter /\ UNCHANGED <<chunkVars, storeVars, rerankVars, batchVars, apiVars>>)
    \/ (\E u \in FetchUrls : FetchAcquire(u) /\ UNCHANGED <<chunkVars, storeVars, rerankVars, batchVars, apiVars>>)
    \/ (\E u \in FetchUrls, o \in FetchOutcomes :
            FetchComplete(u, o) /\ UNCHANGED <<chunkVars, storeVars, rerankVars, batchVars, apiVars>>)
    \/ (GatherReturn /\ UNCHANGED <<chunkVars, storeVars, rerankVars, batchVars, apiVars>>)
    \/ (GatherRaise /\ UNCHANGED <<chunkVars, storeVars, rerankVars, batchVars, apiVars>>)
    \/ (\E u \in FetchUrls, f \in {"none", "encode", "add"} :
            IngestDoc(u, f) /\ UNCHANGED <<chunkVars, rerankVars, batchVars, apiVars>>)
    \/ (CrawlReturn /\ UNCHANGED <<chunkVars, storeVars, rerankVars, batchVars, apiVars>>)

SpecCrawl == InitCrawl /\ [][NextCrawl]_vars

\* parse_llms_txt on its own, over manifests whose links also carry a query
\* ("?") or a fragment that itself ends in ".md".
ParseUrls ==
    LinkUrls \cup {<<"t", ".txt", "#", "s", ".md">>, <<"v", ".md", "?", "x">>,
                   <<"w", ".txt", "#", "s", ".md", "#", "y">>}

ParseManifestLines ==
    {[kind |-> "header", section |-> n, url |-> <<>>] : n \in {"S1", "S2"}} \cup
    {[kind |-> "link", section |-> "", url |-> u] : u \in ParseUrls}

InitParse ==
    /\ StoreInit
    /\ RerankIdle
    /\ BatchIdle
    /\ ApiIdle /\ ChunkIdle
    /\ manifest \in SeqsUpTo(ParseManifestLines, MaxLines)
    /\ wanted = [given |-> FALSE, names |-> <<>>]
    /\ crawl_pc = "parse"
    /\ crawl_error = "none"
    /\ stages = <<"fetch_manifest">>
    /\ parsed = <<>>
    /\ sections_found = <<>>
    /\ task = [u \in FetchUrls |-> "none"]
    /\ sem = max_concurrent
    /\ requested = [u \in FetchUrls |-> 0]
    /\ content_map = {}
    /\ pending = {}
    /\ documents_processed = 0
    /\ ingest_raised = {}

NextParse == CrawlParse /\ UNCHANGED <<chunkVars, storeVars, rerankVars, batchVars, apiVars>>

SpecParse == InitParse /\ [][NextParse]_vars

\* The endpoints under arbitrary request sequences, over a file system with
\* documents of every kind.  A batch submission ends where encode_batch
\* returns; the task it starts is the subject of SpecBatch.
KindA(p) == CASE p % 3 = 1 -> "text" [] p % 3 = 2 -> "empty" [] OTHER -> "dir"
KindB(p) == CASE p % 3 = 1 -> "corrupt" [] p % 3 = 2 -> "text" [] OTHER -> "absent"

TopKChoices == {top_k_ge - 1, top_k_ge, vector_search_limit + 1, top_k_le + 1}

InitApi ==
    /\ StoreInit
    /\ RerankIdle
    /\ dir_state \in {"dir", "absent"}
    /\ entry \in {[p \in Paths |-> KindA(p)], [p \in Paths |-> KindB(p)]}
    /\ file_patterns \in {<<>>, <<"*.rst">>}
    /\ (dir_state = "absent" \/ file_patterns # <<>>) => entry = [p \in Paths |-> KindA(p)]
    /\ dir_state = "absent" => file_patterns = <<>>
    /\ batch_pc = "idle"
    /\ response = [status |-> "none", documents_queued |-> 0]
    /\ documents = <<>>
    /\ doc_idx = 1
    /\ processed = 0
    /\ failed = 0
    /\ attempts = <<>>
    /\ CrawlIdle
    /\ ApiIdle /\ ChunkIdle

NextApi ==
    \/ (\E n \in RequestNames :
            ApiCreate(n)
            /\ UNCHANGED <<chunkVars, rerankVars, batchVars, crawlVars>>)
    \/ (ApiList /\ UNCHANGED <<chunkVars, rerankVars, batchVars, crawlVars>>)
    \/ (\E n \in RequestNames :
            ApiCount(n)
            /\ UNCHANGED <<chunkVars, rerankVars, batchVars, crawlVars>>)
    \/ (\E n \in RequestNames, p \in Paths :
            ApiEncodeDoc(n, p)
            /\ UNCHANGED <<chunkVars, rerankVars, batchVars, crawlVars>>)
    \/ (\E n \in RequestNames, f \in UploadNames, k \in UploadKinds :
            ApiUpload(n, f, k)
            /\ UNCHANGED <<chunkVars, rerankVars, batchVars, crawlVars>>)
    \/ (\E n \in RequestNames :
            ApiBatch(n) /\ UNCHANGED <<chunkVars, rerankVars, crawlVars>>)
    \/ (\E n \in RequestNames, k \in TopKChoices :
            ApiQuery(n, k)
            /\ UNCHANGED <<chunkVars, rerankVars, batchVars, crawlVars>>)

SpecApi == InitApi /\ [][NextApi]_vars

\* chunk_document on any text of up to MaxText characters and anything the
\* chunker can return for it.
InitChunk ==
    /\ StoreInit
    /\ RerankIdle
    /\ BatchIdle
    /\ CrawlIdle
    /\ ApiIdle
    /\ content \in SeqsUpTo(Alphabet, MaxText)
    /\ segments \in ChunkerOutputs(content)
    /\ chunk_result = [status |-> "none", chunks |-> <<>>, offsets |-> <<>>]
    /\ chunk_pc = "called"

NextChunk == ChunkDocument /\ UNCHANGED <<storeVars, rerankVars, batchVars, crawlVars, apiVars>>

SpecChunk == InitChunk /\ [][NextChunk]_vars

\* ========================================================================
\* Properties
\* ========================================================================

StoreUnchangedByLast == table_names = last.pre.names /\ rows = last.pre.rows

\* The <<index, score>> pair a comes before b in the reranked order: higher
\* score first, and of two equal scores the earlier vector-search position.
RankedBefore(a, b) == a[2] > b[2] \/ (a[2] = b[2] /\ a[1] < b[1])

\* The contents stored in the target index under a document's path.
StoredFor(doc) ==
    LET recs == SelectSeq(rows[Target], LAMBDA c : c.source_document = doc)
    IN  [i \in 1..Len(recs) |-> recs[i].content]

Raised(a) == a.status \notin {"ok", "empty"}

\* C1: while the batch task runs, and when it is done after a successful
\* discovery, the loop body has run once for each discovered document, in the
\* sorted order of the list; every document that did not raise has its chunks,
\* in order and under its path, in the target index and nowhere else; failed
\* counts the documents that raised and processed those that were stored; and
\* the task ends by falling off its loop (nothing is raised out of it).
C1_BatchResilience ==
    /\ batch_pc \in {"running", "done"} =>
          /\ \A i, j \in 1..Len(documents) : i < j => documents[i] < documents[j]
          /\ Len(attempts) = doc_idx - 1
          /\ \A i \in 1..Len(attempts) : attempts[i].doc = documents[i]
          /\ failed = Cardinality({i \in 1..Len(attempts) : Raised(attempts[i])})
          /\ processed = Cardinality({i \in 1..Len(attempts) : attempts[i].status = "ok"})
          /\ \A i \in 1..Len(attempts) :
                StoredFor(attempts[i].doc) =
                    IF attempts[i].status = "ok" THEN ChunksOf(attempts[i].doc) ELSE <<>>
          /\ rows["b"] = <<>>
    /\ batch_pc = "done" => Len(attempts) = Len(documents)

\* C1 witness: a finished batch of at least three documents in which a document
\* was stored after an earlier one raised while being read, and a later one
\* raised while being stored.
C1_Witness ==
    /\ batch_pc = "done"
    /\ Len(attempts) >= 3
    /\ \E i, j, k \in 1..Len(attempts) :
          /\ i < j /\ j < k
          /\ attempts[i].status \in {"UnicodeDecodeError", "ValueError", "DocumentNotFoundError"}
          /\ attempts[j].status = "ok"
          /\ attempts[k].status = "OSError"
    /\ failed >= 2

\* C2: the reranked result is the first min(top_k, number of candidates) pairs of
\* the candidates ordered by descending score, ties in vector-search order: it
\* pairs each returned index with that candidate's score, is strictly ordered by
\* RankedBefore (so the scores are non-increasing), and every candidate left out
\* comes after every candidate returned.
C2_RerankOrder ==
    rerank_pc = "returned" =>
        LET n == Len(scores)
            m == Min(top_k, n)
            picked == {reranked[i][1] : i \in 1..Len(reranked)}
        IN  /\ Len(reranked) = m
            /\ Len(reranked) <= Min(top_k, n)
            /\ \A i \in 1..Len(reranked) :
                  /\ reranked[i][1] \in 0..(n - 1)
                  /\ reranked[i][2] = scores[reranked[i][1] + 1]
            /\ \A i, j \in 1..Len(reranked) :
                  i < j => /\ RankedBefore(reranked[i], reranked[j])
                           /\ reranked[i][2] >= reranked[j][2]
            /\ \A c \in (0..(n - 1)) \ picked : \A i \in 1..Len(reranked) :
                  RankedBefore(reranked[i], <<c, scores[c + 1]>>)

\* C2 witness: a call that truncates, returns two candidates of equal score, and
\* whose vector-search order is not the score order.
C2_Witness ==
    /\ rerank_pc = "returned"
    /\ Len(scores) > top_k
    /\ \E i, j \in 1..Len(reranked) : i < j /\ reranked[i][2] = reranked[j][2]
    /\ \E i \in 1..(Len(scores) - 1) : scores[i] < scores[i + 1]

\* C3: create_index on an existing name fails with IndexAlreadyExistsError and
\* changes neither the set of indexes nor any index's chunks; on a new name it
\* succeeds and the index then exists with zero chunks, the others untouched.
C3_CreateIndex ==
    last.op = "create_index" =>
        IF last.name \in last.pre.names
        THEN /\ last.status = "IndexAlreadyExistsError"
             /\ StoreUnchangedByLast
        ELSE /\ last.status = "ok"
             /\ table_names = last.pre.names \cup {last.name}
             /\ rows[last.name] = <<>>
             /\ \A n \in Names \ {last.name} : rows[n] = last.pre.rows[n]

\* C3 witness: a duplicate create on an index that holds chunks.
C3_Witness ==
    /\ last.op = "create_index"
    /\ last.status = "IndexAlreadyExistsError"
    /\ Len(rows[last.name]) > 0

\* C4: add_chunks, vector_search and delete_index on a name that is not an
\* index fail with IndexNotFoundError and change neither the set of indexes nor
\* any stored chunk.
C4_MissingIndexNotFound ==
    (last.op \in {"add_chunks", "vector_search", "delete_index"}
        /\ last.name \notin last.pre.names) =>
            /\ last.status = "IndexNotFoundError"
            /\ StoreUnchangedByLast

\* C4 witness: add_chunks with well-formed lists on a name whose index, with its
\* chunks, was deleted earlier while another index still holds chunks.
C4_Witness ==
    /\ last.op = "add_chunks"
    /\ last.name \notin last.pre.names
    /\ last.arg[2]
    /\ dropped # {}
    /\ \E n \in table_names : Len(rows[n]) > 0

C6_CountRows ==
    last.op = "count_rows" =>
        IF last.name \in last.pre.names
        THEN last.status = "ok" /\ last.ret = Len(rows[last.name])
        ELSE last.status = "IndexNotFoundError"

\* C7: add_chunks on an existing index with n equal-length lists succeeds,
\* returns n and appends exactly n records carrying the given contents behind
\* the records already there (whatever their contents), leaving other tables
\* alone; and no two records of the store share a chunk_id.
C7_AddChunksAppends ==
    /\ (last.op = "add_chunks" /\ last.name \in last.pre.names /\ last.arg[2]) =>
          LET old == last.pre.rows[last.name]
              n == Len(last.arg[1])
          IN  /\ last.status = "ok"
              /\ last.ret = n
              /\ Len(rows[last.name]) = Len(old) + n
              /\ SubSeq(rows[last.name], 1, Len(old)) = old
              /\ \A i \in 1..n : rows[last.name][Len(old) + i].content = last.arg[1][i]
              /\ \A m \in Names \ {last.name} : rows[m] = last.pre.rows[m]
    /\ \A n1, n2 \in Names : \A i \in 1..Len(rows[n1]) : \A j \in 1..Len(rows[n2]) :
          (rows[n1][i].chunk_id = rows[n2][j].chunk_id) => (n1 = n2 /\ i = j)

\* C7 witness: contents added to an index that already holds the same contents.
C7_Witness ==
    /\ last.op = "add_chunks"
    /\ last.status = "ok"
    /\ Len(last.arg[1]) > 0
    /\ LET old == last.pre.rows[last.name]
       IN  /\ Len(old) = Len(last.arg[1])
           /\ \A i \in 1..Len(old) : old[i].content = last.arg[1][i]
           /\ Len(rows[last.name]) = 2 * Len(old)

\* The requests of the crawl that are in flight.
InFlight ==
    Cardinality({u \in FetchUrls : task[u] = "inflight"})
        + (IF crawl_pc = "manifest_inflight" THEN 1 ELSE 0)

\* C8: at every moment the number of HTTP requests in flight is at most
\* max_concurrent, the semaphore holding the remaining capacity.
C8_FetchLimit ==
    /\ InFlight <= max_concurrent
    /\ sem = max_concurrent - InFlight

C8_Witness ==
    /\ InFlight = max_concurrent
    /\ \E u \in FetchUrls : task[u] = "waiting"

StageOrder == <<"fetch_manifest", "parse", "filter", "fetch_resources", "ingest">>

\* C9: fetch_all_markdown isolates failures: whatever way the fetch of a
\* resource fails (status error, network error or any other exception), the
\* crawl goes on past the fetch stage and the result holds exactly the
\* resources that were fetched.
C9_FetchAllIsolatesFailures ==
    /\ crawl_pc = "failed" => "fetch_resources" \notin Range(stages)
    /\ (crawl_pc \in {"ingest", "done"} /\ "fetch_resources" \in Range(stages)) =>
           content_map = {u \in FetchUrls : task[u] = "fetched"}

\* C10: the stages of a crawl come in the order fetch-manifest, parse,
\* filter, fetch-resources, ingest; a failed manifest fetch fails the crawl
\* with a fetch error and a manifest without retained links with a parse
\* error, and in both cases no resource was requested and no chunk added.
C10_CrawlStages ==
    /\ stages = SubSeq(StageOrder, 1, Len(stages))
    /\ (crawl_pc = "failed" /\ stages = <<"fetch_manifest">>) =>
           /\ crawl_error = "LLMSTxtFetchError"
           /\ \A u \in FetchUrls : requested[u] = 0
           /\ \A n \in Names : rows[n] = <<>>
    /\ (crawl_pc = "failed" /\ stages = <<"fetch_manifest", "parse">>) =>
           /\ crawl_error = "LLMSTxtParseError"
           /\ TotalLinks(ParseLines(manifest, <<>>, "default")) = 0
           /\ \A u \in FetchUrls : requested[u] = 0
           /\ \A n \in Names : rows[n] = <<>>
    /\ (crawl_pc \notin {"start", "manifest_inflight", "parse", "failed"}) =>
           TotalLinks(ParseLines(manifest, <<>>, "default")) > 0

\* C11: a crawl whose manifest parsed never raises afterwards, and when it
\* returns, documents_processed is at most the number of resources fetched
\* and sections_found holds each section name of the parsed manifest once.
C11_CrawlCompletes ==
    /\ crawl_pc = "failed" => Len(stages) <= 2
    /\ crawl_pc = "done" =>
          /\ documents_processed <= Cardinality({u \in FetchUrls : task[u] = "fetched"})
          /\ \A i, j \in 1..Len(sections_found) :
                sections_found[i] = sections_found[j] => i = j
          /\ Range(sections_found) =
                LET result == ParseLines(manifest, <<>>, "default")
                IN  {result[i].name : i \in 1..Len(result)}

\* The methods of LanceDBManager an endpoint may call.
StoreCalls ==
    {"create_index", "index_exists", "list_indexes", "count_rows", "add_chunks",
     "vector_search"}

ApiStoreUnchanged == table_names = api.pre.names /\ rows = api.pre.rows

\* C12: for every accepted query (top_k between 1 and 100) the limit handed
\* to vector_search is at least top_k.
C12_OverFetchLimit ==
    (api.op = "query" /\ "vector_search" \in Range(api.calls)) => api.limit >= api.top_k

\* C13: a query on an existing index that holds no rows, so that vector
\* search returns no candidate, succeeds with an empty result list and the
\* reranker is not called.
C13_EmptyQuery ==
    (/\ api.op = "query"
     /\ "vector_search" \in Range(api.calls)
     /\ api.name \in api.pre.names
     /\ api.pre.rows[api.name] = <<>>) =>
        /\ api.status = "success"
        /\ api.results = <<>>
        /\ "rerank" \notin Range(api.calls)

C13_Witness ==
    /\ api.op = "query"
    /\ api.name \in api.pre.names
    /\ api.pre.rows[api.name] = <<>>
    /\ api.status = "success"
    /\ api.calls = <<"encode_query", "vector_search">>
    /\ \E n \in api.pre.names : api.pre.rows[n] # <<>>

\* C14: chunk_document returns as many offsets as segments, every offset is
\* at least 0, for an empty or whitespace-only text both lists are empty, and
\* the call never raises.
C14_ChunkParity ==
    chunk_pc = "returned" =>
        /\ chunk_result.status = "ok"
        /\ chunk_result.chunks = segments
        /\ Len(chunk_result.offsets) = Len(chunk_result.chunks)
        /\ \A i \in 1..Len(chunk_result.offsets) : chunk_result.offsets[i] >= 0
        /\ IsBlank(content) => chunk_result.chunks = <<>> /\ chunk_result.offsets = <<>>

C14_Witness ==
    /\ chunk_pc = "returned"
    /\ Len(chunk_result.chunks) = MaxSegs
    /\ \E i \in 1..Len(segments) : Find(content, segments[i], 0) # chunk_result.offsets[i]
    /\ \E i \in 1..Len(content) : content[i] = " "

\* The patterns discover_documents works with for the request's file_patterns.
EffectivePatterns == IF file_patterns = <<>> THEN default_file_patterns ELSE file_patterns

IsRegularFile(p) == entry[p] \in {"text", "empty", "corrupt"}

\* C15: the list discover_documents returns for an existing directory has no
\* duplicates, is sorted, and holds exactly the regular files under the
\* directory that match at least one pattern.  (Paths are only ever removed
\* after the discovery, so a directory in the list was discovered as one.)
C15_DiscoverDocuments ==
    batch_pc \in {"running", "done"} =>
        /\ \A i, j \in 1..Len(documents) : i < j => documents[i] < documents[j]
        /\ \A i \in 1..Len(documents) :
              /\ entry[documents[i]] # "dir"
              /\ \E k \in 1..Len(EffectivePatterns) : Matches(EffectivePatterns[k], documents[i])
        /\ dir_state = "dir" =>
              \A p \in Paths :
                 (IsRegularFile(p) /\ \E k \in 1..Len(EffectivePatterns) :
                                         Matches(EffectivePatterns[k], p))
                    => p \in Range(documents)

\* The endpoints that take an index name from the caller.
NamedOps == {"create", "count", "encode_doc", "upload", "encode_batch", "query"}

\* C16: a request whose index name breaks the index-name rule (a letter, then
\* letters, digits, _ or -, 1 to 100 characters) is rejected as invalid input
\* before any call of the store, whatever the endpoint.
C16_NameValidatedFirst ==
    (api.op \in NamedOps /\ ~IndexNameFieldValid(api.name)) =>
        /\ api.status = "InvalidInput"
        /\ Range(api.calls) \cap StoreCalls = {}
        /\ ApiStoreUnchanged

\* C17: every response of an endpoint is a success or one of the kinds
\* NotFound, AlreadyExists, InvalidInput, FetchFailure, ParseFailure.
C17_ErrorTaxonomy ==
    api.status \in {"success", "NotFound", "AlreadyExists", "InvalidInput", "FetchFailure",
                    "ParseFailure"}

LinkCount(u) ==
    Cardinality({i \in 1..Len(manifest) :
                    /\ manifest[i].kind = "link"
                    /\ IsMarkdown(manifest[i].url)
                    /\ StripFragment(manifest[i].url) = u})

C20_FetchedOnce ==
    \A u \in FetchUrls :
        /\ requested[u] <= 1
        /\ requested[u] = 1 => (LinkCount(u) >= 1 /\ u \in get_unique_urls(parsed))
        /\ task[u] \in {"inflight", "fetched", "none_result", "raised"} => requested[u] = 1
        /\ task[u] = "waiting" => requested[u] = 0

C20_Witness ==
    /\ crawl_pc \in {"ingest", "done"}
    /\ \E u \in FetchUrls :
          /\ \E i, j \in 1..Len(manifest) :
                /\ manifest[i].kind = "link" /\ manifest[j].kind = "link"
                /\ manifest[i].url # manifest[j].url
                /\ StripFragment(manifest[i].url) = u
                /\ StripFragment(manifest[j].url) = u
          /\ \E i, j \in 1..Len(parsed) : /\ i # j
                                          /\ u \in Range(parsed[i].links)
                                          /\ u \in Range(parsed[j].links)
          /\ task[u] = "none_result"
          /\ requested[u] = 1

\* The urls of the sections of the parsed manifest whose name is in names.
UrlsOfSections(names) ==
    LET result == ParseLines(manifest, <<>>, "default")
    IN  UNION {Range(result[i].links) : i \in {j \in 1..Len(result) : result[j].name \in names}}

AllSectionNames == {"default", "S1", "S2"}

\* The urls a crawl is to fetch: those of the wanted sections when a list is
\* given, those of every section when none is.
WantedUrls ==
    IF wanted.given THEN UrlsOfSections(Range(wanted.names)) ELSE UrlsOfSections(AllSectionNames)

\* C21: with a list of wanted sections, of any length, only urls of sections
\* named in the list are requested and stored; with no list the parsed
\* manifest is used unchanged and the urls of all its sections are fetched.
C21_SectionFilter ==
    /\ \A u \in FetchUrls : requested[u] >= 1 => u \in WantedUrls
    /\ \A i \in 1..Len(rows[Target]) : rows[Target][i].source_document \in WantedUrls
    /\ (~wanted.given /\ crawl_pc \in {"fetch_resources", "ingest", "done"}) =>
          /\ parsed = ParseLines(manifest, <<>>, "default")
          /\ \A u \in WantedUrls : task[u] # "none"

\* The chunks of rows[Target] whose source_document is u, in order.
ChunksFrom(u) ==
    LET own == SelectSeq(rows[Target], LAMBDA c : c.source_document = u)
    IN  [i \in 1..Len(own) |-> own[i].content]

\* C22: in the ingest loop, whichever fetched documents raise while being
\* chunked, embedded or stored, every other fetched document the loop has
\* reached is stored whole under its url, a document that raised stores
\* nothing, the crawl never raises once the loop has begun, and when it
\* returns the loop has reached every fetched document, the chunks of the
\* earlier ones still in the index.
C22_IngestIsolatesFailures ==
    /\ crawl_pc = "failed" => "ingest" \notin Range(stages)
    /\ crawl_pc \in {"ingest", "done"} =>
          /\ ingest_raised \subseteq content_map \ pending
          /\ \A u \in (content_map \ pending) \ ingest_raised : ChunksFrom(u) = ChunksOfUrl(u)
          /\ \A u \in ingest_raised \cup pending : ChunksFrom(u) = <<>>
          /\ documents_processed =
                Cardinality({u \in (content_map \ pending) \ ingest_raised : ChunksOfUrl(u) # <<>>})
    /\ (crawl_pc = "done" /\ "fetch_resources" \in Range(stages)) => pending = {}

C22_Witness ==
    /\ crawl_pc = "done"
    /\ ingest_raised # {}
    /\ \E u \in content_map \ ingest_raised : ChunksFrom(u) # <<>>
    /\ "ingest" \in Range(stages)

\* C23: add_chunks with lists that are not all equally long fails and leaves
\* every table as it was (no record of the call is written): with
\* ValueError when the index exists, with IndexNotFoundError when it does not.
C23_UnequalLengths ==
    (last.op = "add_chunks" /\ ~last.arg[2]) =>
        /\ last.status = (IF last.name \in last.pre.names
                          THEN "ValueError" ELSE "IndexNotFoundError")
        /\ last.ret = 0
        /\ rows = last.pre.rows
        /\ table_names = last.pre.names

C23_Witness ==
    /\ last.op = "add_chunks"
    /\ ~last.arg[2]
    /\ Len(last.arg[1]) = MaxBatch
    /\ last.name \in last.pre.names
    /\ last.pre.rows[last.name] # <<>>
    /\ last.status = "ValueError"

\* The cursor chunk_document searches segment i from: 0 for the first
\* segment, else the end of the previous segment as placed.
CursorAt(i) ==
    IF i = 1 THEN 0
    ELSE chunk_result.offsets[i - 1] + Len(chunk_result.chunks[i - 1])

\* The positions (from 0) at or after the cursor where segment i occurs in content.
OccurrencesFromCursor(i) ==
    LET seg == chunk_result.chunks[i]
    IN  {j \in CursorAt(i)..(Len(content) - Len(seg)) :
            SubSeq(content, j + 1, j + Len(seg)) = seg}

\* C24: the offset of each segment is the position of its first occurrence in
\* the text at or after the cursor, where the text then reads the segment, and
\* the cursor itself when there is no such occurrence; the cursor starts at 0
\* and moves to offset + len(segment), and the offsets strictly increase.
C24_OffsetRecovery ==
    chunk_pc = "returned" =>
        \A i \in 1..Len(chunk_result.chunks) :
            LET off == chunk_result.offsets[i]
                seg == chunk_result.chunks[i]
            IN  /\ IF OccurrencesFromCursor(i) # {}
                   THEN /\ off \in OccurrencesFromCursor(i)
                        /\ \A j \in OccurrencesFromCursor(i) : off <= j
                        /\ SubSeq(content, off + 1, off + Len(seg)) = seg
                   ELSE off = CursorAt(i)
                /\ off >= CursorAt(i)
                /\ i > 1 => off > chunk_result.offsets[i - 1]

C24_Witness ==
    /\ chunk_pc = "returned"
    /\ Len(chunk_result.chunks) = MaxSegs
    /\ \E i \in 1..Len(chunk_result.chunks) :
          OccurrencesFromCursor(i) # {} /\ chunk_result.offsets[i] > CursorAt(i)
    /\ \E i \in 1..Len(chunk_result.chunks) :
          /\ OccurrencesFromCursor(i) = {}
          /\ chunk_result.offsets[i] = CursorAt(i)
          /\ CursorAt(i) > 0

\* The path of a url: what precedes its query and its fragment.
RECURSIVE UrlPath(_)
UrlPath(u) ==
    IF u = <<>> \/ Head(u) \in {"#", "?"} THEN <<>> ELSE <<Head(u)>> \o UrlPath(Tail(u))

PathEndsInMd(u) == UrlPath(u) # <<>> /\ UrlPath(u)[Len(UrlPath(u))] = ".md"

\* C25: every link the parsed manifest retains has a stored url that ends in
\* ".md" and holds no "#", and a link whose url path ends otherwise is
\* dropped: no more links are retained than the manifest has link lines with
\* a path ending in ".md".
C25_RetainedLinks ==
    (crawl_pc = "filter" /\ stages = <<"fetch_manifest", "parse">>) =>
        /\ \A i \in 1..Len(parsed) : \A k \in 1..Len(parsed[i].links) :
              LET u == parsed[i].links[k]
              IN  /\ u # <<>>
                  /\ u[Len(u)] = ".md"
                  /\ "#" \notin Range(u)
        /\ TotalLinks(parsed) <=
              Cardinality({i \in 1..Len(manifest) :
                              manifest[i].kind = "link" /\ PathEndsInMd(manifest[i].url)})

\* What _get_table gives without the cache: db.table_names() is consulted and
\* a fresh handle opened on every call.
FreshGetTable(pre, name) == IF name \in pre.names THEN "ok" ELSE "IndexNotFoundError"

\* C26: every result and error of a request is the one a store without the
\* handle cache gives from the same tables: add_chunks and vector_search, the
\* operations that go through _get_table, fail with IndexNotFoundError exactly
\* when the index is not in the database and otherwise work on the table's
\* current records; and a cached handle always belongs to an existing index.
C26_CacheTransparent ==
    /\ _tables \subseteq table_names
    /\ last.op = "vector_search" =>
          IF FreshGetTable(last.pre, last.name) = "ok"
          THEN /\ last.status = "ok"
               /\ last.ret = SubSeq(last.pre.rows[last.name], 1,
                                    Min(last.arg, Len(last.pre.rows[last.name])))
          ELSE last.status = "IndexNotFoundError" /\ last.ret = <<>>
    /\ last.op = "add_chunks" =>
          IF FreshGetTable(last.pre, last.name) = "ok"
          THEN /\ last.status = (IF last.arg[2] THEN "ok" ELSE "ValueError")
               /\ last.arg[2] =>
                     /\ last.ret = Len(last.arg[1])
                     /\ [i \in 1..Len(rows[last.name]) |-> rows[last.name][i].content] =
                           [i \in 1..Len(last.pre.rows[last.name]) |->
                               last.pre.rows[last.name][i].content] \o last.arg[1]
          ELSE last.status = "IndexNotFoundError" /\ rows = last.pre.rows
    /\ last.op \in {"vector_search", "add_chunks"} => table_names = last.pre.names

\* A search served from a cached handle after an index with records was deleted.
C26_Witness ==
    /\ last.op = "vector_search"
    /\ last.name \in last.pre.cache
    /\ last.status = "ok"
    /\ last.ret # <<>>
    /\ dropped # {}

\* The operations that go through _get_table.
OpeningOps == {"add_chunks", "vector_search"}

\* C27: however the store's operations of concurrent requests interleave
\* (each runs to its end before the next starts), the cache holds handles of
\* existing indexes only and none while the store is closed; an open of a
\* name adds exactly that name and a second open of the same name leaves the
\* cache as the first left it; a failed open caches nothing; create_index
\* adds and delete_index removes exactly the handle of its name.
C27_CacheNotCorrupted ==
    /\ \A n \in _tables : n \in table_names
    /\ _tables # {} => _db
    /\ (last.op \in OpeningOps /\ last.status # "IndexNotFoundError") =>
          _tables = last.pre.cache \cup {last.name}
    /\ (last.op \in OpeningOps /\ last.status = "IndexNotFoundError") =>
          _tables = last.pre.cache /\ last.name \notin _tables
    /\ (last.op = "create_index" /\ last.status = "ok") =>
          _tables = last.pre.cache \cup {last.name}
    /\ (last.op = "delete_index" /\ last.status = "ok") =>
          _tables = last.pre.cache \ {last.name}
    /\ last.op \in {"index_exists", "list_indexes", "count_rows"} => _tables = last.pre.cache

\* A second open of a name while handles of both names are cached, after a
\* delete_index had emptied a table.
C27_Witness ==
    /\ last.op \in OpeningOps
    /\ last.status = "ok"
    /\ last.name \in last.pre.cache
    /\ _tables = Names
    /\ _tables = last.pre.cache
    /\ dropped # {}

\* C28: no slot of the semaphore is leaked: the slots held are exactly those
\* of the requests in flight, and once the crawl has ended, by returning or
\* by raising, no fetch is waiting or in flight and the semaphore is back at
\* max_concurrent.
C28_NoSlotLeak ==
    /\ sem + InFlight = max_concurrent
    /\ crawl_pc \in {"done", "failed"} =>
          /\ \A u \in FetchUrls : task[u] \notin {"waiting", "inflight"}
          /\ sem = max_concurrent

\* C29: a crawl never creates or checks its target index.  No step of a
\* crawl changes the set of indexes; when the target index does not exist,
\* every pass of the ingest loop over a document with chunks raises and is
\* absorbed, nothing is stored, no handle is cached, the crawl does not fail
\* in the ingest stage nor with IndexNotFoundError, and it returns
\* documents_processed = 0 with the section names of the manifest.
C29_MissingIndexCrawl ==
    [][/\ table_names' = table_names
       /\ Target \notin table_names =>
             /\ rows' = rows
             /\ _tables' = _tables
             /\ documents_processed' = 0
             /\ crawl_error' # "IndexNotFoundError"
             /\ crawl_pc' = "failed" => "ingest" \notin Range(stages')
             /\ \A u \in pending \ pending' :
                   ChunksOfUrl(u) # <<>> => u \in ingest_raised'
             /\ crawl_pc' = "done" =>
                   Range(sections_found') =
                      LET result == ParseLines(manifest, <<>>, "default")
                      IN  {result[i].name : i \in 1..Len(result)}
      ]_vars

C29_Witness ==
    /\ Target \notin table_names
    /\ crawl_pc = "done"
    /\ Cardinality(ingest_raised) >= 2
    /\ Cardinality(content_map) >= 2
    /\ Len(sections_found) >= 2
    /\ documents_processed = 0
    /\ rows[Target] = <<>>

\* C30: the batch task never creates an index.  No step of the task changes
\* the set of indexes; a pass of its loop made while the target index is
\* missing stores nothing and caches no handle, a document that has chunks
\* then fails with IndexNotFoundError (or earlier, in the encoder) and is
\* counted as failed, and the loop goes on to the next document.
C30_BatchNeverCreates ==
    [][/\ (batch_pc = "running" \/ batch_pc' # batch_pc) => table_names' = table_names
       /\ (attempts' # attempts /\ Target \notin table_names) =>
             LET a == attempts'[Len(attempts')]
                 pd == process_document(a.doc)
             IN  /\ rows' = rows
                 /\ _tables' = _tables
                 /\ processed' = processed
                 /\ (pd[1] = "ok" /\ pd[2] # <<>>) =>
                       /\ a.status \in {"IndexNotFoundError", "RuntimeError"}
                       /\ failed' = failed + 1
                 /\ batch_pc' = "running"
                 /\ doc_idx' = doc_idx + 1
      ]_vars

\* A finished batch whose request had found the index, which was then deleted:
\* two documents failed with IndexNotFoundError and the index is still absent.
C30_Witness ==
    /\ batch_pc = "done"
    /\ response.status = "success"
    /\ Target \notin table_names
    /\ Cardinality({i \in 1..Len(attempts) : attempts[i].status = "IndexNotFoundError"}) >= 2
    /\ failed >= 2
    /\ processed = 0
    /\ rows[Target] = <<>>

====
